---- MODULE Spec2Model ----
(***************************************************************************)
(* Model of csv-processor-function/main.py: the Cloud Function             *)
(* process_csv_upload, its helper process_csv_file and the Firestore       *)
(* collection 'uploads' it tracks uploads in.                              *)
(*                                                                         *)
(* Every delivery of a storage notification is one invocation of           *)
(* process_csv_upload.  Invocations share nothing but the store; each      *)
(* store call (get, set, update) is one atomic step, and the code between  *)
(* two store calls belongs to the step of the call that follows it.        *)
(* Python strings are sequences of one-character strings.                  *)
(***************************************************************************)
EXTENDS Integers, Sequences, FiniteSets, TLC

\* Number of deliveries (invocations of process_csv_upload) in a run.
NumInv == 3

\* Number of calls of generate_upload_id looked at together.
MaxCalls == 2

Invocations == 1..NumInv

None == "None"
SERVER_TIMESTAMP == "SERVER_TIMESTAMP"
NL == "\n"

----------------------------------------------------------------------------
(* Strings *)

LowerChar(ch) ==
    CASE ch = "D" -> "d"
      [] ch = "C" -> "c"
      [] ch = "S" -> "s"
      [] ch = "V" -> "v"
      [] OTHER -> ch

\* str.lower()
lower(s) == [k \in 1..Len(s) |-> LowerChar(s[k])]

\* str.endswith(suffix)
endswith(s, suffix) ==
    /\ Len(s) >= Len(suffix)
    /\ SubSeq(s, Len(s) - Len(suffix) + 1, Len(s)) = suffix

\* Line 32 with lower() left out: file_name.endswith('.csv')
IsCsvNameCaseSensitive(file_name) == endswith(file_name, <<".", "c", "s", "v">>)

\* file_name.lower().endswith('.csv')
IsCsvName(file_name) == endswith(lower(file_name), <<".", "c", "s", "v">>)

\* hashlib.sha256(content.encode()).hexdigest()[:16], the hash taken as
\* injective: the digest of a string is identified by the string hashed.
sha256_hexdigest16(content) == <<"sha256">> \o content

\* Line 15 with created_time left out of the text that is hashed
generate_upload_id_without_time(bucket_name, file_name, file_size, created_time) ==
    sha256_hexdigest16(bucket_name \o <<"-">> \o file_name \o <<"-">>
                       \o file_size)

\* f"{bucket_name}-{file_name}-{file_size}-{created_time}", hashed
generate_upload_id(bucket_name, file_name, file_size, created_time) ==
    sha256_hexdigest16(bucket_name \o <<"-">> \o file_name \o <<"-">>
                       \o file_size \o <<"-">> \o created_time)

\* str.split('\n'): the list of segments between newlines
RECURSIVE split(_)
split(s) ==
    IF \A k \in 1..Len(s) : s[k] # NL
    THEN <<s>>
    ELSE LET k == CHOOSE k \in 1..Len(s) :
                      s[k] = NL /\ \A m \in 1..(k - 1) : s[m] # NL
         IN  <<SubSeq(s, 1, k - 1)>> \o split(SubSeq(s, k + 1, Len(s)))

----------------------------------------------------------------------------
(* The environment: notifications, objects in the bucket, the store *)

\* cloud_event.data of the notifications that can be delivered
CsvEvent == [bucket |-> <<"b">>, name |-> <<"d", ".", "c", "s", "v">>]
TxtEvent == [bucket |-> <<"b">>, name |-> <<"d", ".", "t", "x", "t">>]
MalformedEvent == [bucket |-> <<"b">>]

Events == {CsvEvent, TxtEvent, MalformedEvent}

\* bucket.blob(file_name) builds a local reference and loads no metadata:
\* blob.size and blob.time_created are None.
BlobSize(bucket_name, file_name) == None
BlobTimeCreated(bucket_name, file_name) == None

\* str(blob.size) inside the f-string
SizeText(size) == IF size = None THEN <<"N", "o", "n", "e">> ELSE size

\* blob.time_created.isoformat() if blob.time_created else ""
CreatedText(created) == IF created = None THEN <<>> ELSE created

UploadIdOf(d) ==
    generate_upload_id(d.bucket, d.name,
                       SizeText(BlobSize(d.bucket, d.name)),
                       CreatedText(BlobTimeCreated(d.bucket, d.name)))

\* Notifications that pass lines 28-34: well formed, name ending in .csv
Accepted == {d \in Events : "name" \in DOMAIN d /\ IsCsvName(d.name)}

\* The objects, (bucket, name), process_csv_file downloads
Objects == {<<d.bucket, d.name>> : d \in Accepted}

\* The upload ids process_csv_upload computes
Ids == {UploadIdOf(d) : d \in Accepted}

\* Text of an object: empty, one line, one line and a newline, two lines
Contents == {<<>>, <<"h">>, <<"h", NL>>, <<"h", NL, "r">>}

\* A document that does not exist has no fields.
Absent == [f \in {} |-> None]
Exists(doc) == DOMAIN doc # {}

\* A document left by another writer of the collection, in a status
\* process_csv_upload does not write itself.
PendingDoc == [status |-> "pending"]

\* DocumentReference.set(data, merge=True) and DocumentReference.update(data)
\* on an existing document: the fields given replace, the others stay.
Merge(doc, fields) ==
    [f \in (DOMAIN doc) \cup (DOMAIN fields) |->
        IF f \in DOMAIN fields THEN fields[f] ELSE doc[f]]

\* upload_doc.to_dict().get('status', 'unknown')
StatusOf(doc) == IF "status" \in DOMAIN doc THEN doc["status"] ELSE "unknown"

----------------------------------------------------------------------------
(* State *)

VARIABLES
    store,        \* collection 'uploads': upload id -> document
    content,      \* object -> its text
    pc,           \* invocation -> where it stands
    data,         \* invocation -> cloud_event.data
    upload_id,    \* invocation -> local upload_id (NoId while unbound)
    status,       \* invocation -> local status, kept once the invocation has returned
    e,            \* invocation -> exception caught at line 106
    done_writes,  \* upload id -> number of writes of status 'done'
    orphaned,     \* upload ids whose claimant was killed with no other delivery in flight
    results,      \* upload id -> values process_csv_file returned, in the order
                  \* of the calls (recorded in sequential runs only)
    made,         \* calls of generate_upload_id made on their own: <<arguments, id>>
    response      \* what get_upload_status returned last, with its request

vars == <<store, content, pc, data, upload_id, status, e,
          done_writes, orphaned, results, made, response>>

NoId == <<>>
NoData == [none |-> None]
NoError == "none"
NoResponse == [request |-> NoData, code |-> 0, body |-> NoData]

\* read: before the get of line 53; claim: before the set of line 83;
\* process: before process_csv_file and the update of line 91 or 99;
\* handler: before the except block of line 106.
Active == {"read", "claim", "process", "handler"}

InFlight(id) == {j \in Invocations : pc[j] \in Active /\ upload_id[j] = id}

TypeOK ==
    /\ DOMAIN store = Ids
    /\ \A id \in Ids : Exists(store[id]) =>
          StatusOf(store[id]) \in {"pending", "processing", "done", "failed"}
    /\ content \in [Objects -> Contents]
    /\ pc \in [Invocations -> Active \cup {"idle", "returned", "raised", "killed"}]
    /\ \A i \in Invocations : data[i] \in Events \cup {NoData}
    /\ \A i \in Invocations : upload_id[i] \in Ids \cup {NoId}
    /\ status \in [Invocations ->
                     {"unbound", "pending", "processing", "done", "failed"}]
    /\ e \in [Invocations -> {NoError, "KeyError", "storage unavailable",
                              "store unavailable"}]
    /\ done_writes \in [Ids -> 0..NumInv]
    /\ orphaned \subseteq Ids
    /\ \A id \in Ids : /\ results[id] \in Seq({"True", "False"})
                       /\ Len(results[id]) <= NumInv

Init ==
    /\ store \in [Ids -> {Absent, PendingDoc}]
    /\ content \in [Objects -> Contents]
    /\ pc = [i \in Invocations |-> "idle"]
    /\ data = [i \in Invocations |-> NoData]
    /\ upload_id = [i \in Invocations |-> NoId]
    /\ status = [i \in Invocations |-> "unbound"]
    /\ e = [i \in Invocations |-> NoError]
    /\ done_writes = [id \in Ids |-> 0]
    /\ orphaned = {}
    /\ results = [id \in Ids |-> <<>>]
    /\ made = {}
    /\ response = NoResponse

----------------------------------------------------------------------------
(* process_csv_file *)

\* Lines 136-143: the validation of the downloaded text
ValidCsv(csv_content) == ~(Len(split(csv_content)) < 2)

\* process_csv_file(bucket_name, file_name); downloaded is FALSE when
\* blob.download_as_text() raises, which the except of line 156 turns into
\* False.
process_csv_file(csv_content, downloaded) ==
    IF ~downloaded THEN "False"
    ELSE IF ValidCsv(csv_content) THEN "True" ELSE "False"

----------------------------------------------------------------------------
(* process_csv_upload *)

\* Lines 59-64 with the branch of line 62 lost: only 'done' is skipped
SkipsDoneOnly(st) == st = "done"

\* Lines 59-64 with 'failed' taken for final as well
SkipsFailedToo(st) == st \in {"done", "processing", "failed"}

\* Lines 59-64: the statuses on which a delivery returns without processing
Skips(st) == st \in {"done", "processing"}

\* Lines 71-80
upload_data(i) ==
    [upload_id |-> upload_id[i],
     bucket_name |-> data[i].bucket,
     file_name |-> data[i].name,
     file_size |-> BlobSize(data[i].bucket, data[i].name),
     created_time |-> BlobTimeCreated(data[i].bucket, data[i].name),
     status |-> "processing",
     processing_started_at |-> SERVER_TIMESTAMP,
     updated_at |-> SERVER_TIMESTAMP]

\* Lines 91-95 with the status left out of the update
DoneFieldsNoStatus ==
    [processing_completed_at |-> SERVER_TIMESTAMP,
     updated_at |-> SERVER_TIMESTAMP]

\* Lines 91-95
DoneFields ==
    [status |-> "done",
     processing_completed_at |-> SERVER_TIMESTAMP,
     updated_at |-> SERVER_TIMESTAMP]

\* Lines 99-103 and 112-116
FailedFieldsNoStatus(error_message) ==
    [error_message |-> error_message,
     updated_at |-> SERVER_TIMESTAMP]

\* Lines 99-103 and 112-116: the fields of the update to 'failed'
FailedFields(error_message) ==
    [status |-> "failed",
     error_message |-> error_message,
     updated_at |-> SERVER_TIMESTAMP]

\* How process_csv_upload ends once its body or its handler has finished:
\* lines 34, 61, 64, 96, 104 and 118 all return None, and the except block
\* raises nothing again to the caller.
Outcome == "returned"

\* The invocation is over (how: its outcome, or "killed"): its locals are
\* gone.
Ends(i, how) ==
    /\ pc' = [pc EXCEPT ![i] = how]
    /\ data' = [data EXCEPT ![i] = NoData]
    /\ upload_id' = [upload_id EXCEPT ![i] = NoId]
    /\ e' = [e EXCEPT ![i] = NoError]

\* Lines 25-49: a notification d is delivered to invocation i.  Deliveries
\* take the invocations in order.
Receive(i, d) ==
    /\ pc[i] = "idle"
    /\ \A j \in Invocations : j < i => pc[j] # "idle"
    /\ \/ /\ "name" \notin DOMAIN d                  \* data["name"] raises
          /\ pc' = [pc EXCEPT ![i] = "handler"]
          /\ data' = [data EXCEPT ![i] = d]
          /\ e' = [e EXCEPT ![i] = "KeyError"]
          /\ UNCHANGED upload_id
       \/ /\ "name" \in DOMAIN d
          /\ ~IsCsvName(d.name)                       \* lines 32-34
          /\ Ends(i, Outcome)
       \/ /\ "name" \in DOMAIN d
          /\ IsCsvName(d.name)
          /\ data' = [data EXCEPT ![i] = d]
          /\ \/ /\ pc' = [pc EXCEPT ![i] = "handler"]  \* storage.Client() raises
                /\ e' = [e EXCEPT ![i] = "storage unavailable"]
                /\ UNCHANGED upload_id
             \/ /\ pc' = [pc EXCEPT ![i] = "read"]
                /\ upload_id' = [upload_id EXCEPT ![i] = UploadIdOf(d)]
                /\ UNCHANGED e
    /\ UNCHANGED <<store, content, status, done_writes, orphaned, results, made, response>>

\* Lines 52-68: read the document and decide
CheckStatus(i) ==
    /\ pc[i] = "read"
    /\ LET upload_doc == store[upload_id[i]] IN
       IF Exists(upload_doc)
       THEN /\ status' = [status EXCEPT ![i] = StatusOf(upload_doc)]
            /\ IF Skips(StatusOf(upload_doc))
               THEN Ends(i, Outcome)
               ELSE /\ pc' = [pc EXCEPT ![i] = "claim"]
                    /\ UNCHANGED <<data, upload_id, e>>
       ELSE /\ pc' = [pc EXCEPT ![i] = "claim"]
            /\ UNCHANGED <<status, data, upload_id, e>>
    /\ UNCHANGED <<store, content, done_writes, orphaned, results, made, response>>

\* Lines 70-84: upload_ref.set(upload_data, merge=True)
Claim(i) ==
    /\ pc[i] = "claim"
    /\ store' = [store EXCEPT ![upload_id[i]] = Merge(@, upload_data(i))]
    /\ pc' = [pc EXCEPT ![i] = "process"]
    /\ UNCHANGED <<content, data, upload_id, status, e, done_writes, orphaned,
                   results, made, response>>

\* Line 87, success = process_csv_file(bucket_name, file_name), and lines
\* 89-104, upload_ref.update(...) with the outcome, then return.
Finalize(i, downloaded) ==
    /\ pc[i] = "process"
    /\ LET success == process_csv_file(
                          content[<<data[i].bucket, data[i].name>>], downloaded)
       IN  IF success = "True"
           THEN /\ store' = [store EXCEPT ![upload_id[i]] = Merge(@, DoneFields)]
                /\ done_writes' = [done_writes EXCEPT ![upload_id[i]] = @ + 1]
           ELSE /\ store' = [store EXCEPT ![upload_id[i]] =
                               Merge(@, FailedFields("Processing failed"))]
                /\ UNCHANGED done_writes
    /\ Ends(i, Outcome)
    /\ UNCHANGED <<content, status, orphaned, made, response>>

\* A store call (the get of line 53, the set of line 83, the update of line
\* 91 or 99) raises instead of taking effect; control passes to the except
\* of line 106.
StoreFault(i) ==
    /\ pc[i] \in {"read", "claim", "process"}
    /\ pc' = [pc EXCEPT ![i] = "handler"]
    /\ e' = [e EXCEPT ![i] = "store unavailable"]
    /\ UNCHANGED <<store, content, data, upload_id, status, done_writes, orphaned,
                   results, made, response>>

\* The except block with a delete of the record in place of the update
HandleExceptionDeletes(i) ==
    /\ pc[i] = "handler"
    /\ \/ /\ upload_id[i] # NoId
          /\ Exists(store[upload_id[i]])
          /\ store' = [store EXCEPT ![upload_id[i]] = Absent]
       \/ UNCHANGED store
    /\ Ends(i, Outcome)
    /\ UNCHANGED <<content, status, done_writes, orphaned, results, made, response>>

\* The except block with set(merge=True) in place of update: the write
\* creates the document when it is not there
HandleExceptionUpsert(i) ==
    /\ pc[i] = "handler"
    /\ \/ /\ upload_id[i] # NoId
          /\ store' = [store EXCEPT ![upload_id[i]] = Merge(@, FailedFields(e[i]))]
       \/ UNCHANGED store
    /\ Ends(i, Outcome)
    /\ UNCHANGED <<content, status, done_writes, orphaned, results, made, response>>

\* Lines 106-118: the except block.  update() raises NotFound on a document
\* that does not exist, and may raise as any store call; both are swallowed
\* by the bare except of line 117.  The function then returns.
HandleException(i) ==
    /\ pc[i] = "handler"
    /\ \/ /\ upload_id[i] # NoId                 \* 'upload_id' in locals()
          /\ Exists(store[upload_id[i]])
          /\ store' = [store EXCEPT ![upload_id[i]] = Merge(@, FailedFields(e[i]))]
       \/ UNCHANGED store
    /\ Ends(i, Outcome)
    /\ UNCHANGED <<content, status, done_writes, orphaned, results, made, response>>

\* The hosting platform kills the invocation (timeout, crash of the instance).
Kill(i) ==
    /\ pc[i] \in Active
    /\ Ends(i, "killed")
    /\ status' = [status EXCEPT ![i] = "unbound"]
    /\ orphaned' =
          IF /\ pc[i] = "process"
             /\ StatusOf(store[upload_id[i]]) = "processing"
             /\ InFlight(upload_id[i]) = {i}
          THEN orphaned \cup {upload_id[i]}
          ELSE orphaned
    /\ UNCHANGED <<store, content, done_writes, results, made, response>>

----------------------------------------------------------------------------
(* Specifications *)

\* The body of process_csv_upload after a claim, the download succeeding or
\* not.
Process(i) ==
    /\ \E downloaded \in BOOLEAN : Finalize(i, downloaded)
    /\ UNCHANGED results

\* Deliveries at any time, concurrently; store calls may raise; invocations
\* may be killed.
Next ==
    \E i \in Invocations :
        \/ \E d \in Events : Receive(i, d)
        \/ CheckStatus(i)
        \/ Claim(i)
        \/ Process(i)
        \/ StoreFault(i)
        \/ HandleException(i)
        \/ Kill(i)

Spec == Init /\ [][Next]_vars

\* No other invocation is running.
Alone(i) == \A j \in Invocations \ {i} : pc[j] \notin Active

\* The same, the value process_csv_file returns being recorded.
ProcessRecorded(i) ==
    \E downloaded \in BOOLEAN :
        /\ Finalize(i, downloaded)
        /\ results' = [results EXCEPT ![upload_id[i]] = Append(@,
               process_csv_file(content[<<data[i].bucket, data[i].name>>],
                                downloaded))]

\* Sequential deliveries: a notification is delivered once the invocations
\* before it are over; the store answers every call and nothing is killed.
\* The download of the object may still fail.
SeqNext ==
    \E i \in Invocations :
        \/ \E d \in Events : Alone(i) /\ Receive(i, d)
        \/ Alone(i) /\ CheckStatus(i)
        \/ Alone(i) /\ Claim(i)
        \/ Alone(i) /\ ProcessRecorded(i)
        \/ Alone(i) /\ HandleException(i)

SeqSpec == Init /\ [][SeqNext]_vars

----------------------------------------------------------------------------
(* Notifications for several objects *)

\* Names in other letter cases, a name that contains csv without ending in
\* .csv, and two objects whose bucket and name join to the same text.
UpperEvent == [bucket |-> <<"b">>, name |-> <<"D", ".", "C", "S", "V">>]
MixedEvent == [bucket |-> <<"b">>, name |-> <<"d", ".", "c", "S", "v">>]
NoDotEvent == [bucket |-> <<"b">>, name |-> <<"d", "c", "s", "v">>]
LeftEvent == [bucket |-> <<"b">>, name |-> <<"x", "-", "d", ".", "c", "s", "v">>]
RightEvent == [bucket |-> <<"b", "-", "x">>, name |-> <<"d", ".", "c", "s", "v">>]

WideEvents ==
    Events \cup {UpperEvent, MixedEvent, NoDotEvent, LeftEvent, RightEvent}

WideAccepted == {d \in WideEvents : "name" \in DOMAIN d /\ IsCsvName(d.name)}
WideObjects == {<<d.bucket, d.name>> : d \in WideAccepted}
WideIds == {UploadIdOf(d) : d \in WideAccepted}

\* An empty collection; every object holds a header and a row.
WideInit ==
    /\ store = [id \in WideIds |-> Absent]
    /\ content = [o \in WideObjects |-> <<"h", NL, "r">>]
    /\ pc = [i \in Invocations |-> "idle"]
    /\ data = [i \in Invocations |-> NoData]
    /\ upload_id = [i \in Invocations |-> NoId]
    /\ status = [i \in Invocations |-> "unbound"]
    /\ e = [i \in Invocations |-> NoError]
    /\ done_writes = [id \in WideIds |-> 0]
    /\ orphaned = {}
    /\ results = [id \in WideIds |-> <<>>]
    /\ made = {}
    /\ response = NoResponse

\* Deliveries one after another, for any of the objects; store calls may
\* raise and invocations may be killed.
WideNext ==
    \E i \in Invocations :
        \/ \E d \in WideEvents : Alone(i) /\ Receive(i, d)
        \/ Alone(i) /\ CheckStatus(i)
        \/ Alone(i) /\ Claim(i)
        \/ Alone(i) /\ ProcessRecorded(i)
        \/ Alone(i) /\ StoreFault(i)
        \/ Alone(i) /\ HandleException(i)
        \/ Alone(i) /\ Kill(i)

WideSpec == WideInit /\ [][WideNext]_vars

----------------------------------------------------------------------------
(* generate_upload_id on its own *)

\* Arguments of generate_upload_id, as texts: bucket names and object names
\* with and without the separator, sizes, creation times ("" when absent).
FpBuckets == {<<"b">>, <<"b", "-", "x">>}
FpNames == {<<"d">>, <<"x", "-", "d">>}
FpSizes == {<<"1">>, <<"2">>}
FpTimes == {<<>>, <<"t">>}

\* One call of generate_upload_id, kept with its arguments
CallGenerateUploadId(bucket_name, file_name, file_size, created_time) ==
    /\ Cardinality(made) < MaxCalls
    /\ made' = made \cup
          {<<<<bucket_name, file_name, file_size, created_time>>,
             generate_upload_id(bucket_name, file_name, file_size, created_time)>>}
    /\ UNCHANGED <<store, content, pc, data, upload_id, status, e,
                   done_writes, orphaned, results, response>>

FpNext ==
    \E bucket_name \in FpBuckets, file_name \in FpNames,
       file_size \in FpSizes, created_time \in FpTimes :
        CallGenerateUploadId(bucket_name, file_name, file_size, created_time)

FpSpec == Init /\ [][FpNext]_vars

----------------------------------------------------------------------------
(* get_upload_status *)

\* request.args of a status query: no upload_id, an empty one, the id of an
\* object of the bucket, an id that was never issued.
NoArgs == [f \in {} |-> None]
UnknownId == <<"z">>
Requests == {NoArgs} \cup {[upload_id |-> q] : q \in Ids \cup {<<>>, UnknownId}}

\* db.collection('uploads').document(upload_id).get()
Lookup(q) == IF q \in DOMAIN store THEN store[q] ELSE Absent

\* Lines 166-180 without the test of upload_doc.exists
get_upload_status_without_exists(request, fault) ==
    IF "upload_id" \notin DOMAIN request \/ request.upload_id = <<>>
    THEN <<[error |-> "upload_id parameter is required"], 400>>
    ELSE IF fault
    THEN <<[error |-> "store unavailable"], 500>>
    ELSE <<Lookup(request.upload_id), 200>>

\* Lines 166-180: the body and the status code returned; fault says whether
\* the get of line 172 raises.
get_upload_status(request, fault) ==
    IF "upload_id" \notin DOMAIN request \/ request.upload_id = <<>>
    THEN <<[error |-> "upload_id parameter is required"], 400>>
    ELSE IF fault
    THEN <<[error |-> "store unavailable"], 500>>
    ELSE IF ~Exists(Lookup(request.upload_id))
    THEN <<[error |-> "Upload ID not found"], 404>>
    ELSE <<Lookup(request.upload_id), 200>>

\* One status query, answered
GetUploadStatus(request, fault) ==
    /\ response' = [request |-> request,
                    code |-> get_upload_status(request, fault)[2],
                    body |-> get_upload_status(request, fault)[1]]
    /\ UNCHANGED <<store, content, pc, data, upload_id, status, e,
                   done_writes, orphaned, results, made>>

\* Deliveries one after another, status queries at any moment
QueryNext ==
    \/ \E i \in Invocations :
        \/ \E d \in Events : Alone(i) /\ Receive(i, d)
        \/ Alone(i) /\ CheckStatus(i)
        \/ Alone(i) /\ Claim(i)
        \/ Alone(i) /\ ProcessRecorded(i)
        \/ Alone(i) /\ HandleException(i)
    \/ \E request \in Requests, fault \in BOOLEAN :
        GetUploadStatus(request, fault)

QuerySpec == Init /\ [][QueryNext]_vars

----------------------------------------------------------------------------
(* Runs in which no invocation is killed and every store write succeeds *)

\* The get of line 53 raises
ReadFault(i) ==
    /\ pc[i] = "read"
    /\ StoreFault(i)

\* The except block, its update of lines 112-116 taking effect whenever the
\* document is there
HandlerWriteSucceeds(i) ==
    /\ HandleException(i)
    /\ (upload_id[i] # NoId /\ Exists(store[upload_id[i]]))
       => store' = [store EXCEPT ![upload_id[i]] = Merge(@, FailedFields(e[i]))]

NoKillNext ==
    \E i \in Invocations :
        \/ \E d \in Events : Receive(i, d)
        \/ CheckStatus(i)
        \/ Claim(i)
        \/ Process(i)
        \/ ReadFault(i)
        \/ HandlerWriteSucceeds(i)

NoKillSpec == Init /\ [][NoKillNext]_vars

----------------------------------------------------------------------------
(* Properties *)

\* The object invocation i is working on
ObjectOf(i) == <<data[i].bucket, data[i].name>>

\* Invocation i takes the step that reads the document (line 53 answers).
ReadStep(i) == pc[i] = "read" /\ pc'[i] \in {"claim", "returned", "raised"}

\* Invocation i takes the step that writes its claim (line 83 answers).
ClaimStep(i) == pc[i] = "claim" /\ pc'[i] \in {"process", "returned", "raised"}

\* A text that is empty or is a single line, with or without the newline
\* that ends it.
AtMostOneLine(text) ==
    LET newlines == {k \in 1..Len(text) : text[k] = NL}
    IN  \/ newlines = {}
        \/ newlines = {Len(text)}

\* C1: at most one claim.  Of the concurrent invocations for one upload id,
\* at most one at a time has written 'processing' and is running
\* process_csv_file.
AtMostOneClaim ==
    \A id \in Ids :
        Cardinality({i \in Invocations :
                        pc[i] = "process" /\ upload_id[i] = id}) <= 1

\* C2: 'done' is terminal.  A document whose status is 'done' keeps that
\* status in every step, whoever takes it.
DoneIsTerminal ==
    [][\A id \in Ids :
          StatusOf(store[id]) = "done" => StatusOf(store'[id]) = "done"]_vars

\* C3: a failed claim is a no-op.  The invocation that reads status 'done'
\* or 'processing' returns normally on that step, without having reached
\* process_csv_file, and the store is as it was.
SkipIsNoOp ==
    [][\A i \in Invocations :
          (/\ ReadStep(i)
           /\ Exists(store[upload_id[i]])
           /\ StatusOf(store[upload_id[i]]) \in {"done", "processing"})
          => /\ pc'[i] = "returned"
             /\ status'[i] = StatusOf(store[upload_id[i]])
             /\ store' = store
             /\ done_writes' = done_writes]_vars

\* C3, witness: one invocation has returned on reading 'done', another on
\* reading 'processing'.
SkipIsNoOpWitness ==
    \E i, j \in Invocations :
        /\ pc[i] = "returned" /\ status[i] = "done"
        /\ pc[j] = "returned" /\ status[j] = "processing"

\* C4: retry after failure.  The invocation that reads a document that is
\* absent or has a status other than 'processing' and 'done' goes on to the
\* claim, and its claim leaves the document in status 'processing' with
\* processing_started_at, the invocation standing at process_csv_file.
RetryAfterFailure ==
    [][\A i \in Invocations :
          /\ (/\ ReadStep(i)
              /\ ~(/\ Exists(store[upload_id[i]])
                   /\ StatusOf(store[upload_id[i]]) \in {"done", "processing"}))
             => pc'[i] = "claim"
          /\ ClaimStep(i)
             => /\ pc'[i] = "process"
                /\ StatusOf(store'[upload_id[i]]) = "processing"
                /\ "processing_started_at" \in DOMAIN store'[upload_id[i]]]_vars

\* C4, witness: an invocation that read 'failed' has claimed the upload
\* again and stands at process_csv_file.
RetryAfterFailureWitness ==
    \E i \in Invocations :
        /\ status[i] = "failed"
        /\ pc[i] = "process"
        /\ StatusOf(store[upload_id[i]]) = "processing"
        /\ "processing_started_at" \in DOMAIN store[upload_id[i]]

\* C5: a transient failure is recorded and signalled.  When the download of
\* a claimed upload fails, the invocation records 'failed' with an error
\* message and ends by raising to its caller.
TransientFailureRaises ==
    [][\A i \in Invocations :
          (pc[i] = "process" /\ Finalize(i, FALSE))
          => /\ StatusOf(store'[upload_id[i]]) = "failed"
             /\ "error_message" \in DOMAIN store'[upload_id[i]]
             /\ pc'[i] = "raised"]_vars

\* C6: sequential deliveries.  When process_csv_file has returned False,
\* False and True for an upload id, in that order, and no invocation for the
\* id is running, the document has status 'done' and 'done' was written
\* once.
ThirdDeliveryDone ==
    \A id \in Ids :
        (results[id] = <<"False", "False", "True">> /\ InFlight(id) = {})
        => /\ StatusOf(store[id]) = "done"
           /\ done_writes[id] = 1

\* C6, witness: two failed deliveries and a third that succeeded, all over.
ThirdDeliveryDoneWitness ==
    \E id \in Ids :
        /\ results[id] = <<"False", "False", "True">>
        /\ InFlight(id) = {}
        /\ \A i \in Invocations : pc[i] = "returned"
        /\ StatusOf(store[id]) = "done"

\* C7: an invalid file fails.  When the text downloaded is empty or a single
\* line, the invocation leaves the document in status 'failed' and returns
\* normally.
InvalidFileFails ==
    [][\A i \in Invocations :
          (/\ pc[i] = "process"
           /\ AtMostOneLine(content[ObjectOf(i)])
           /\ Finalize(i, TRUE))
          => /\ StatusOf(store'[upload_id[i]]) = "failed"
             /\ pc'[i] = "returned"]_vars

\* C8: a document with status 'done' carries lines_processed.
DoneHasLinesProcessed ==
    \A id \in Ids :
        StatusOf(store[id]) = "done" => "lines_processed" \in DOMAIN store[id]

\* C9: error_message is present only on documents with status 'failed'.
ErrorMessageOnlyOnFailed ==
    \A id \in Ids :
        "error_message" \in DOMAIN store[id] => StatusOf(store[id]) = "failed"

\* C10: a stuck claim stays.  Once the claimant of an upload was killed with
\* the document in status 'processing' and no other delivery for the id in
\* flight, the document has status 'processing' ever after.
StuckStaysProcessing ==
    \A id \in orphaned : StatusOf(store[id]) = "processing"

\* A name whose last four characters are ".csv" in any letter case
EndsInCsvAnyCase(name) ==
    /\ Len(name) >= 4
    /\ name[Len(name) - 3] = "."
    /\ name[Len(name) - 2] \in {"c", "C"}
    /\ name[Len(name) - 1] \in {"s", "S"}
    /\ name[Len(name)] \in {"v", "V"}

\* C11: ignorable input.  The delivery of a notification whose name does not
\* end in .csv, letter case aside, is over in one step with a normal return,
\* no document created or changed and process_csv_file not called; a name
\* that ends in .csv in any letter case is taken on.
IgnoresOtherNames ==
    [][\A i \in Invocations :
          \A d \in {x \in WideEvents : "name" \in DOMAIN x} :
              Receive(i, d)
              => IF EndsInCsvAnyCase(d.name)
                 THEN pc'[i] \in {"read", "handler"} /\ data'[i] = d
                 ELSE /\ pc'[i] = "returned"
                      /\ store' = store
                      /\ done_writes' = done_writes
                      /\ results' = results]_vars

\* C11, witness: a delivery has returned with the collection still empty,
\* and the notification for D.CSV has been taken on.
IgnoresOtherNamesWitness ==
    \E i, j \in Invocations :
        /\ pc[i] = "returned"
        /\ status[i] = "unbound"
        /\ \A id \in DOMAIN store : ~Exists(store[id])
        /\ pc[j] = "read"
        /\ data[j] = UpperEvent
        /\ upload_id[j] = UploadIdOf(UpperEvent)

\* The status of a document, "absent" when there is none
RecordStatus(doc) == IF Exists(doc) THEN StatusOf(doc) ELSE "absent"

\* C12: lifecycle of a single upload.  While the first delivery is the only
\* one and process_csv_file has not failed, every change of a document's
\* status is its creation in 'pending', or goes from 'pending' to
\* 'processing', or from 'processing' to 'done'.
SingleUploadLifecycle ==
    [][(/\ \A j \in Invocations \ {1} : pc[j] = "idle" /\ pc'[j] = "idle"
        /\ \A id \in Ids : \A k \in 1..Len(results'[id]) :
              results'[id][k] = "True")
       => \A id \in Ids :
             RecordStatus(store'[id]) # RecordStatus(store[id])
             => <<RecordStatus(store[id]), RecordStatus(store'[id])>> \in
                   {<<"absent", "pending">>,
                    <<"pending", "processing">>,
                    <<"processing", "done">>}]_vars

\* C13: distinct uploads get distinct ids.  Two calls of generate_upload_id
\* with different (bucket_name, file_name, file_size, created_time) return
\* different ids.
DistinctUploadsDistinctIds ==
    \A p, q \in made : p[1] # q[1] => p[2] # q[2]

\* The fields in which two argument tuples of generate_upload_id differ
DifferingFields(a, b) == {k \in 1..4 : a[k] # b[k]}

\* C16: fingerprint determinism and sensitivity.  Calls of generate_upload_id
\* with the same four arguments return the same id, and two calls whose
\* arguments differ in exactly one of the four fields return different ids.
FingerprintSensitive ==
    \A p, q \in made :
        /\ p[1] = q[1] => p[2] = q[2]
        /\ p[2] = generate_upload_id(p[1][1], p[1][2], p[1][3], p[1][4])
        /\ Cardinality(DifferingFields(p[1], q[1])) = 1 => p[2] # q[2]

\* Two calls that differ in the creation time alone have been made.
FingerprintSensitiveWitness ==
    \E p, q \in made :
        /\ DifferingFields(p[1], q[1]) = {4}
        /\ p[2] # q[2]

\* The metadata snapshot of a record (lines 73-76)
MetadataFields == {"bucket_name", "file_name", "file_size", "created_time"}

\* C14: immutable metadata.  Once a record holds bucket_name, file_name,
\* file_size or created_time, no step of any invocation, for this object or
\* another, changes the value of that field.
MetadataImmutable ==
    [][\A id \in DOMAIN store :
          \A f \in MetadataFields \cap DOMAIN store[id] :
              /\ f \in DOMAIN store'[id]
              /\ store'[id][f] = store[id][f]]_vars

\* The records of the store that carry a given upload id
RecordsFor(id) ==
    {k \in DOMAIN store :
        /\ Exists(store[k])
        /\ "upload_id" \in DOMAIN store[k]
        /\ store[k].upload_id = id}

\* C15: ingestion dedup.  However the deliveries of one object interleave,
\* every invocation that has written its claim finds exactly one record for
\* its id, stored under that id, and no step ever deletes a record.
OneRecordPerUpload ==
    /\ [](\A i \in Invocations :
             pc[i] = "process" => RecordsFor(upload_id[i]) = {upload_id[i]})
    /\ [][\A id \in DOMAIN store :
             Exists(store[id]) => Exists(store'[id])]_vars

\* Two concurrent deliveries of the same object have both written their claim
\* and one record is there.
OneRecordPerUploadWitness ==
    \E i, j \in Invocations :
        /\ i # j
        /\ pc[i] = "process" /\ pc[j] = "process"
        /\ upload_id[i] = upload_id[j]
        /\ data[i] = data[j]
        /\ RecordsFor(upload_id[i]) = {upload_id[i]}

\* C17: status query.  A query that names an upload id is answered 500 with
\* the message of the fault when the store read fails, and otherwise 404
\* exactly when the store holds no record for the id and 200 with the stored
\* record when it holds one; no query changes the store.
StatusQueryAnswers ==
    [][\A request \in Requests, fault \in BOOLEAN :
          GetUploadStatus(request, fault)
          => /\ store' = store
             /\ ("upload_id" \in DOMAIN request /\ request.upload_id # <<>>)
                => LET q == request.upload_id
                       found == q \in DOMAIN store /\ Exists(store[q])
                   IN  IF fault
                       THEN /\ response'.code = 500
                            /\ response'.body = [error |-> "store unavailable"]
                       ELSE /\ response'.code = 404 <=> ~found
                            /\ response'.code = 200 <=> found
                            /\ found => response'.body = store[q]]_vars

\* A query for an upload that was processed has been answered with its
\* record.
StatusQueryAnswersWitness ==
    /\ response.code = 200
    /\ "upload_id" \in DOMAIN response.request
    /\ response.request.upload_id \in DOMAIN store
    /\ response.body = store[response.request.upload_id]
    /\ StatusOf(response.body) = "done"

\* C18: quiescence.  With no invocation killed and every store write taking
\* effect, a record that no invocation is working on is never 'processing',
\* and if process_csv_upload has written to it, it is 'done' or 'failed'.
QuiescentIsSettled ==
    \A id \in Ids :
        (InFlight(id) = {} /\ Exists(store[id]))
        => /\ StatusOf(store[id]) # "processing"
           /\ "updated_at" \in DOMAIN store[id]
              => StatusOf(store[id]) \in {"done", "failed"}

\* All invocations have returned, two of them having raced through the
\* processing of the same upload.
QuiescentIsSettledWitness ==
    \E id \in Ids :
        /\ \A i \in Invocations : pc[i] = "returned"
        /\ done_writes[id] >= 2
        /\ StatusOf(store[id]) = "done"

\* C19: failure recording never creates a record.  When the except block of
\* an invocation runs to its end with no upload id bound, or with no record
\* in the store for its id, the store is left as it was and the invocation
\* returns normally.
HandlerCreatesNoRecord ==
    [][\A i \in Invocations :
          (/\ pc[i] = "handler"
           /\ pc'[i] \notin {"handler", "killed"}
           /\ upload_id[i] = NoId \/ ~Exists(store[upload_id[i]]))
          => /\ store' = store
             /\ pc'[i] = "returned"]_vars

\* The read of the store failed for an upload that has no record, and the
\* except block is about to run.
HandlerCreatesNoRecordWitness ==
    \E i \in Invocations :
        /\ pc[i] = "handler"
        /\ e[i] = "store unavailable"
        /\ upload_id[i] # NoId
        /\ ~Exists(store[upload_id[i]])

====
